---- MODULE Spec2Model ----
(***************************************************************************)
(* Model of etl.py: the ETL pipeline that turns the raw CSV sources and    *)
(* the restcountries API into a star schema, writes every table locally    *)
(* and to S3, and then runs the data quality checks.                       *)
(*                                                                         *)
(* A table is [cols, rows]; a string whose characters matter (an area      *)
(* code) is a sequence of one-character strings; a local file or a remote  *)
(* object is a record [exists, gen, complete, cols, rows].                 *)
(***************************************************************************)
EXTENDS Integers, Sequences, FiniteSets, TLC

\* ------------------------------------------------------------------------
\* Bounds of the model
MaxRows == 2        \* rows of WorldData.csv
MaxStale == 1       \* countries_list_* files left in data/ by earlier runs
DimRowCount == 2    \* rows of every dimension source

\* ------------------------------------------------------------------------
\* Program constants
SkipFrom == 201     \* r.status_code >= 201 -> continue
CodeWidth == 3      \* f'{i[2]:03d}'

\* ------------------------------------------------------------------------
\* Names
ARTIFACTS ==
    << "dim_unit.csv", "dim_item_group.csv", "dim_flag.csv", "dim_element.csv",
       "dim_country_group.csv", "fact_world_data.csv", "dim_country_info.csv" >>

Artifacts == { ARTIFACTS[i] : i \in DOMAIN ARTIFACTS }

\* the calls of main(), in order
MAIN ==
    << "process_units_data", "process_item_group_data", "process_flags_data",
       "process_elements_data", "process_country_group_data",
       "process_world_file_data", "process_countries_data", "quality_checks" >>

DimStages ==
    { "process_units_data", "process_item_group_data", "process_flags_data",
      "process_elements_data", "process_country_group_data" }

\* the file each stage writes with to_csv and uploads with s3.upload_file
ArtifactOfMixedUp(stage) ==
    CASE stage = "process_units_data" -> "dim_unit.csv"
      [] stage = "process_item_group_data" -> "dim_item_group.csv"
      [] stage = "process_flags_data" -> "dim_unit.csv"
      [] stage = "process_elements_data" -> "dim_element.csv"
      [] stage = "process_country_group_data" -> "dim_country_group.csv"
      [] stage = "process_world_file_data" -> "fact_world_data.csv"
      [] stage = "process_countries_data" -> "dim_country_info.csv"

ArtifactOf(stage) ==
    CASE stage = "process_units_data" -> "dim_unit.csv"
      [] stage = "process_item_group_data" -> "dim_item_group.csv"
      [] stage = "process_flags_data" -> "dim_flag.csv"
      [] stage = "process_elements_data" -> "dim_element.csv"
      [] stage = "process_country_group_data" -> "dim_country_group.csv"
      [] stage = "process_world_file_data" -> "fact_world_data.csv"
      [] stage = "process_countries_data" -> "dim_country_info.csv"

\* ------------------------------------------------------------------------
\* Sequences
Range(s) == { s[i] : i \in DOMAIN s }

SeqsUpTo(S, n) == UNION { [1..k -> S] : k \in 0..n }

Contains(s, x) == \E i \in DOMAIN s : s[i] = x

\* ------------------------------------------------------------------------
\* Schema mapping: DataFrame.rename(columns=...) and DataFrame.drop(columns=...)

\* rename leaves a column the mapping does not name as it is, and ignores a
\* mapping key that is no column
rename(cols, mapping) ==
    [ i \in DOMAIN cols |->
        IF cols[i] \in DOMAIN mapping THEN mapping[cols[i]] ELSE cols[i] ]

\* drop raises KeyError when a named column is absent
dropRaises(cols, dropped) == \E c \in dropped : ~Contains(cols, c)

drop(cols, dropped) == SelectSeq(cols, LAMBDA c : c \notin dropped)

\* the columns of the raw sources
SourceCols(stage) ==
    CASE stage = "process_units_data" -> << "Unit Name", "Description" >>
      [] stage = "process_item_group_data" ->
            << "Item Group Code", "Item Group", "Item Code", "Item", "Factor",
               "CPC Code", "HS Code", "HS07 Code", "HS12 Code" >>
      [] stage = "process_flags_data" -> << "Flag", "Description" >>
      [] stage = "process_elements_data" ->
            << "Element Code", "Element", "Unit", "Description" >>
      [] stage = "process_country_group_data" ->
            << "Country Group Code", "Country Group", "Country Code", "Country",
               "M49 Code", "ISO2 Code", "ISO3 Code" >>
      [] stage = "process_world_file_data" ->
            << "Area Code", "Area Code (M49)", "Area", "Item Code",
               "Item Code (CPC)", "Item", "Element Code", "Element",
               "Year Code", "Year", "Unit", "Value", "Flag" >>

Mapping(stage) ==
    CASE stage = "process_units_data" ->
            ("Unit Name" :> "unit_name") @@ ("Description" :> "description")
      [] stage = "process_item_group_data" ->
            ("Item Group Code" :> "item_group_code") @@ ("Item Group" :> "item_group")
            @@ ("Item Code" :> "item_code") @@ ("Item" :> "item")
      [] stage = "process_flags_data" ->
            ("Flag" :> "flag") @@ ("Description" :> "description")
      [] stage = "process_elements_data" ->
            ("Element Code" :> "element_code") @@ ("Element" :> "element")
            @@ ("Unit" :> "unit") @@ ("Description" :> "description")
      [] stage = "process_country_group_data" ->
            ("Country Group" :> "country_group") @@ ("Country" :> "country")
            @@ ("M49 Code" :> "m49_code")
      [] stage = "process_world_file_data" ->
            ("Area Code (M49)" :> "area_code_m49") @@ ("Item Code" :> "item_code")
            @@ ("Element Code" :> "element_code") @@ ("Year" :> "year")
            @@ ("Unit" :> "unit_name") @@ ("Value" :> "value")
            @@ ("Flag" :> "flag_code")

Dropped(stage) ==
    CASE stage = "process_item_group_data" ->
            { "Factor", "CPC Code", "HS Code", "HS07 Code", "HS12 Code" }
      [] stage = "process_country_group_data" ->
            { "Country Group Code", "Country Code", "ISO2 Code", "ISO3 Code" }
      [] stage = "process_world_file_data" ->
            { "Area Code", "Area", "Item Code (CPC)", "Item", "Element", "Year Code" }
      [] OTHER -> {}

\* to_csv(..., index=False) for the five dimension tables; the fact table and
\* the country table are written without index=False, so with the index
WritesIndex(stage) ==
    stage \in { "process_world_file_data", "process_countries_data" }

\* to_csv: with the index, an unnamed first column holds it
to_csv(table, index) ==
    [ cols |-> IF index THEN << "" >> \o table.cols ELSE table.cols,
      rows |-> table.rows ]

\* ------------------------------------------------------------------------
\* Area codes

\* str.lstrip("'"): every leading apostrophe goes
RECURSIVE lstrip(_)
lstrip(s) == IF s # << >> /\ Head(s) = "'" THEN lstrip(Tail(s)) ELSE s

DigitValue(c) ==
    CASE c = "0" -> 0 [] c = "1" -> 1 [] c = "2" -> 2 [] c = "3" -> 3
      [] c = "4" -> 4 [] c = "5" -> 5 [] c = "6" -> 6 [] c = "7" -> 7
      [] c = "8" -> 8 [] c = "9" -> 9

DigitChar(d) ==
    CASE d = 0 -> "0" [] d = 1 -> "1" [] d = 2 -> "2" [] d = 3 -> "3"
      [] d = 4 -> "4" [] d = 5 -> "5" [] d = 6 -> "6" [] d = 7 -> "7"
      [] d = 8 -> "8" [] d = 9 -> "9"

\* pd.read_csv reads a column of digit strings as integers
RECURSIVE ParseInt(_)
ParseInt(s) ==
    IF s = << >> THEN 0
    ELSE 10 * ParseInt(SubSeq(s, 1, Len(s) - 1)) + DigitValue(s[Len(s)])

RECURSIVE Digits(_)
Digits(n) ==
    IF n < 10 THEN << DigitChar(n) >>
    ELSE Append(Digits(n \div 10), DigitChar(n % 10))

RECURSIVE ZeroPad(_, _)
ZeroPad(s, width) == IF Len(s) >= width THEN s ELSE ZeroPad(<< "0" >> \o s, width)

\* f'{n:03d}'
Format03d(n) == ZeroPad(Digits(n), CodeWidth)

\* ------------------------------------------------------------------------
\* Tables, files and inputs

EmptyTable == [ cols |-> << >>, rows |-> << >> ]

\* no file / no object under the name
Absent ==
    [ exists |-> FALSE, gen |-> "none", complete |-> FALSE,
      cols |-> << >>, rows |-> << >> ]

\* a file of an earlier run that was left truncated (0 bytes)
OldEmptyFile ==
    [ exists |-> TRUE, gen |-> "old", complete |-> FALSE,
      cols |-> << >>, rows |-> << >> ]

\* a complete file of an earlier run
OldFile ==
    [ exists |-> TRUE, gen |-> "old", complete |-> TRUE,
      cols |-> << "old" >>, rows |-> << >> ]

\* the file right after to_csv has opened it for writing: created or truncated
OpenedFile ==
    [ exists |-> TRUE, gen |-> "new", complete |-> FALSE,
      cols |-> << >>, rows |-> << >> ]

WrittenFile(csv) ==
    [ exists |-> TRUE, gen |-> "new", complete |-> TRUE,
      cols |-> csv.cols, rows |-> csv.rows ]

\* os.stat(path).st_size: the header line and one line per row
st_size(f) == IF f.cols = << >> THEN 0 ELSE 1 + Len(f.rows)

\* the rows of a dimension source
DimRows == [ i \in 1..DimRowCount |-> [ label |-> "row", code |-> Digits(i) ] ]

\* a source as it may be found in data/: as expected, without one of the
\* columns the stage drops, or (ItemGroup.csv) with one more column
SourceVariants(stage) ==
    LET cols == SourceCols(stage)
        gone == CHOOSE d \in Dropped(stage) : TRUE
    IN  { cols }
        \cup (IF Dropped(stage) = {} THEN {}
              ELSE { SelectSeq(cols, LAMBDA c : c # gone) })
        \cup (IF stage = "process_item_group_data"
              THEN { Append(cols, "Note") } ELSE {})

\* rows of WorldData.csv: the area label and the raw 'Area Code (M49)'
WorldRowKinds ==
    { [ label |-> "A", code |-> << "'", "0", "0", "4" >> ],
      [ label |-> "B", code |-> << "'", "0", "0", "4" >> ],
      [ label |-> "A", code |-> << "0", "0", "4" >> ],
      [ label |-> "B", code |-> << "'", "0", "0", "8" >> ] }

\* a countries_list_<timestamp>.csv left in data/ by an earlier run
StaleList(t) ==
    [ name |-> t, ctime |-> t,
      rows |-> << [ label |-> "Z", code |-> << "9", "9", "9" >> ] >> ]

\* the status codes the API answers with
Statuses == { 200, 201, 404 }

\* the columns of the country table
CountryCols ==
    << "ccn3", "flags", "name", "capital", "languages", "area", "population" >>

\* the optional fields of a response body, each absent (no such key), empty
\* ({} or []) or holding a value
Shapes == { "absent", "empty", "value" }

\* the bodies the API answers a successful lookup with: every optional field
\* holds a value, all of them are empty (a territory without capital and
\* languages), or one of them is absent
Bodies ==
    { b \in [ languages : Shapes, capital : Shapes, nativeName : Shapes ] :
        \/ \A f \in DOMAIN b : b[f] = "value"
        \/ \A f \in DOMAIN b : b[f] = "empty"
        \/ \E f \in DOMAIN b :
              b[f] = "absent" /\ \A g \in DOMAIN b \ { f } : b[g] = "value" }

\* r.json(): the record of the looked-up code
Response(code, body) ==
    [ label |-> "", code |-> code, languages |-> body.languages,
      capital |-> body.capital, nativeName |-> body.nativeName ]

\* item['languages'], item['capital'], item['name']['nativeName']: a
\* subscript of a key that is absent raises KeyError
subscriptRaises(item) ==
    \/ item.languages = "absent"
    \/ item.capital = "absent"
    \/ item.nativeName = "absent"

\* a truthy languages mapping or capital list is joined into one string, a
\* truthy nativeName is deleted; an empty value is falsy and stays as it is
normalize(item) ==
    [ label |-> item.label, code |-> item.code,
      languages |-> IF item.languages = "value" THEN "joined" ELSE item.languages,
      capital |-> IF item.capital = "value" THEN "joined" ELSE item.capital,
      nativeName |-> IF item.nativeName = "value" THEN "deleted"
                     ELSE item.nativeName ]

\* drop_duplicates(): the first occurrence of every row stays, in order
RECURSIVE drop_duplicates(_)
drop_duplicates(rows) ==
    IF rows = << >> THEN << >>
    ELSE LET init == SubSeq(rows, 1, Len(rows) - 1)
             last == rows[Len(rows)]
         IN  IF Contains(init, last) THEN drop_duplicates(init)
             ELSE Append(drop_duplicates(init), last)

\* max(list_of_files, key=os.path.getctime)
oldest_file(files) == CHOOSE f \in files : \A g \in files : f.ctime <= g.ctime

latest_file(files) == CHOOSE f \in files : \A g \in files : g.ctime <= f.ctime

\* if r.status_code >= 201: continue
skipped_any_error(status_code) == status_code >= 300

skipped(status_code) == status_code >= SkipFrom

\* ------------------------------------------------------------------------
\* The steps of every stage

\* to_csv (opens the file under its final name, then writes it), then
\* s3.upload_file
WriterStepsUploadFirst == << "upload", "open", "flush" >>

WriterSteps == << "open", "flush", "upload" >>

Program(stage) ==
    CASE stage \in DimStages -> << "read" >> \o WriterSteps
      [] stage = "process_world_file_data" -> << "codes", "transform" >> \o WriterSteps
      [] stage = "process_countries_data" ->
            << "list", "get", "normalize" >> \o WriterSteps
      [] stage = "quality_checks" -> << "check" >>

IndexOf(seq, x) == CHOOSE i \in DOMAIN seq : seq[i] = x

\* ------------------------------------------------------------------------
\* State

VARIABLES
    entry,                  \* what was called: "main" or "quality_checks"
    pc,                     \* the function of MAIN that is executing
    pos,                    \* its position in Program(pc)
    status,                 \* "running", "done", "aborted" (uncaught exception)
                            \* or "killed" (the process died)
    err,                    \* the uncaught exception, "none" without one
    local,                  \* output/<name>: the local files
    remote,                 \* the objects of the S3 bucket, by key
    lists,                  \* data/countries_list_*: the code-list files
    clock,                  \* datetime.now() and the creation time of a new file
    src,                    \* the raw source a dimension stage has read
    world_data,             \* WorldData.csv as read by process_world_file_data
    df,                     \* the table the running stage has produced
    list_of_countries,      \* process_countries_data: the codes to look up
    idx,                    \* ... the position of its loop in list_of_countries
    result_file_countries,  \* ... the records collected so far
    calls,                  \* the codes requests.get was called with, in order
    statuses,               \* the status codes of the calls that returned
    printed,                \* quality_checks: <<artifact, check, result>> printed
    gi,                     \* quality_checks: the artifact it is at
    opens,                  \* how often each local file was opened for writing
    writes,                 \* how often each local file was written completely
    uploads                 \* how often an upload of each artifact was started

ctl == << pc, pos, status, err >>
files == << local, remote, lists, clock >>
tables == << src, world_data, df >>
enrich == << list_of_countries, idx, result_file_countries, calls, statuses >>
gate == << printed, gi >>
hist == << opens, writes, uploads >>
vars == << entry, ctl, files, tables, enrich, gate, hist >>

Step == Program(pc)[pos]

Running(stage, step) == status = "running" /\ pc = stage /\ Step = step

\* the function returns: main calls the next one, or the call is over
Return ==
    /\ err' = err
    /\ IF entry = "main" /\ pc # "quality_checks"
       THEN /\ pc' = MAIN[IndexOf(MAIN, pc) + 1]
            /\ pos' = 1
            /\ status' = status
       ELSE /\ pc' = pc
            /\ pos' = pos
            /\ status' = "done"

\* on to the statement n steps further, or return after the last one
Skip(n) ==
    IF pos + n <= Len(Program(pc))
    THEN pc' = pc /\ pos' = pos + n /\ status' = status /\ err' = err
    ELSE Return

Continue == Skip(1)

\* no function catches an exception: it ends the function, main and the process
Raise(e) == pc' = pc /\ pos' = pos /\ status' = "aborted" /\ err' = e

Bump(count, a) == [ count EXCEPT ![a] = @ + 1 ]

Init ==
    /\ entry \in { "main", "quality_checks" }
    /\ pc = IF entry = "main" THEN MAIN[1] ELSE "quality_checks"
    /\ pos = 1
    /\ status = "running"
    /\ err = "none"
    /\ local \in [ Artifacts -> { Absent, OldEmptyFile, OldFile } ]
    /\ remote \in { [ a \in Artifacts |-> Absent ], [ a \in Artifacts |-> OldFile ] }
    /\ lists \in SUBSET { StaleList(t) : t \in 1..MaxStale }
    /\ clock = MaxStale + 1
    /\ src = EmptyTable
    /\ world_data = EmptyTable
    /\ df = EmptyTable
    /\ list_of_countries = << >>
    /\ idx = 1
    /\ result_file_countries = << >>
    /\ calls = << >>
    /\ statuses = << >>
    /\ printed = {}
    /\ gi = 1
    /\ opens = [ a \in Artifacts |-> 0 ]
    /\ writes = [ a \in Artifacts |-> 0 ]
    /\ uploads = [ a \in Artifacts |-> 0 ]

\* ------------------------------------------------------------------------
\* The five dimension stages: read_csv, rename, drop

Dimension(stage) ==
    /\ Running(stage, "read")
    /\ \E cols \in SourceVariants(stage) :
          LET renamed == rename(cols, Mapping(stage))
          IN  /\ src' = [ cols |-> cols, rows |-> DimRows ]
              /\ IF dropRaises(renamed, Dropped(stage))
                 THEN Raise("KeyError") /\ df' = df
                 ELSE /\ df' = [ cols |-> drop(renamed, Dropped(stage)),
                                 rows |-> DimRows ]
                      /\ Continue
    /\ UNCHANGED << entry, files, world_data, enrich, gate, hist >>

process_units_data == Dimension("process_units_data")

process_item_group_data == Dimension("process_item_group_data")

process_flags_data == Dimension("process_flags_data")

process_elements_data == Dimension("process_elements_data")

process_country_group_data == Dimension("process_country_group_data")

\* ------------------------------------------------------------------------
\* process_world_file_data

\* read WorldData.csv, derive the distinct (Area, code) pairs, strip the
\* marker, write them to data/countries_list_<now>.csv
world_file_codes ==
    /\ Running("process_world_file_data", "codes")
    /\ \E cols \in SourceVariants("process_world_file_data"),
          rows \in SeqsUpTo(WorldRowKinds, MaxRows) :
          LET pairs == drop_duplicates(rows)
              countries == [ i \in DOMAIN pairs |->
                               [ label |-> pairs[i].label,
                                 code |-> lstrip(pairs[i].code) ] ]
          IN  /\ world_data' = [ cols |-> cols, rows |-> rows ]
              /\ lists' = lists \cup
                          { [ name |-> clock, ctime |-> clock, rows |-> countries ] }
    /\ clock' = clock + 1
    /\ Continue
    /\ UNCHANGED << entry, local, remote, src, df, enrich, gate, hist >>

\* rename and drop the columns, strip the marker from area_code_m49
world_file_transform ==
    /\ Running("process_world_file_data", "transform")
    /\ LET stage == "process_world_file_data"
           renamed == rename(world_data.cols, Mapping(stage))
       IN  IF dropRaises(renamed, Dropped(stage))
           THEN Raise("KeyError") /\ df' = df
           ELSE /\ df' = [ cols |-> drop(renamed, Dropped(stage)),
                           rows |-> [ i \in DOMAIN world_data.rows |->
                                        [ label |-> "",
                                          code |-> lstrip(world_data.rows[i].code) ] ] ]
                /\ Continue
    /\ UNCHANGED << entry, files, src, world_data, enrich, gate, hist >>

\* ------------------------------------------------------------------------
\* process_countries_data

\* the newest code-list file; its third column, read as integers, formatted
\* with three digits
countries_list ==
    /\ Running("process_countries_data", "list")
    /\ IF lists = {}
       THEN /\ Raise("ValueError")
            /\ UNCHANGED << list_of_countries, idx, result_file_countries >>
       ELSE LET df_countries == latest_file(lists).rows
            IN  /\ list_of_countries' =
                      [ i \in DOMAIN df_countries |->
                          Format03d(ParseInt(df_countries[i].code)) ]
                /\ idx' = 1
                /\ result_file_countries' = << >>
                /\ Skip(IF df_countries = << >> THEN 2 ELSE 1)
    /\ UNCHANGED << entry, files, tables, calls, statuses, gate, hist >>

\* one pass of the loop: requests.get(url, timeout=10), the status check,
\* r.json(), append
countries_get ==
    /\ Running("process_countries_data", "get")
    /\ LET i == list_of_countries[idx]
       IN  /\ calls' = Append(calls, i)
           /\ \/ /\ Raise("Timeout")
                 /\ UNCHANGED << idx, result_file_countries, statuses >>
              \/ \E status_code \in Statuses, body \in Bodies :
                    /\ statuses' = Append(statuses, status_code)
                    /\ result_file_countries' =
                          IF skipped(status_code) THEN result_file_countries
                          ELSE Append(result_file_countries, Response(i, body))
                    /\ idx' = idx + 1
                    /\ Skip(IF idx = Len(list_of_countries) THEN 1 ELSE 0)
    /\ UNCHANGED << entry, files, tables, list_of_countries, gate, hist >>

\* countries_info.json written and read back, every record normalized in
\* turn, the records flattened into a table
countries_normalize ==
    /\ Running("process_countries_data", "normalize")
    /\ IF \E i \in DOMAIN result_file_countries :
             subscriptRaises(result_file_countries[i])
       THEN Raise("KeyError") /\ df' = df
       ELSE /\ df' = [ cols |-> IF result_file_countries = << >> THEN << >>
                                ELSE CountryCols,
                       rows |-> [ i \in DOMAIN result_file_countries |->
                                    normalize(result_file_countries[i]) ] ]
            /\ Continue
    /\ UNCHANGED << entry, files, src, world_data, enrich, gate, hist >>

\* ------------------------------------------------------------------------
\* Saving the result file and uploading it, the same in all seven stages

\* to_csv opens output/<name> for writing: the file is created or truncated
to_csv_open ==
    /\ status = "running" /\ pc # "quality_checks" /\ Step = "open"
    /\ \/ /\ Raise("OSError")
          /\ UNCHANGED << local, opens >>
       \/ /\ local' = [ local EXCEPT ![ArtifactOf(pc)] = OpenedFile ]
          /\ opens' = Bump(opens, ArtifactOf(pc))
          /\ Continue
    /\ UNCHANGED << entry, remote, lists, clock, tables, enrich, gate, writes, uploads >>

\* to_csv writes the header and the rows, and closes the file
to_csv_write ==
    /\ status = "running" /\ pc # "quality_checks" /\ Step = "flush"
    /\ \/ /\ Raise("OSError")
          /\ UNCHANGED << local, writes >>
       \/ /\ local' = [ local EXCEPT ![ArtifactOf(pc)] =
                          WrittenFile(to_csv(df, WritesIndex(pc))) ]
          /\ writes' = Bump(writes, ArtifactOf(pc))
          /\ Continue
    /\ UNCHANGED << entry, remote, lists, clock, tables, enrich, gate, opens, uploads >>

\* the process dies while to_csv is writing
kill ==
    /\ status = "running" /\ pc # "quality_checks" /\ Step = "flush"
    /\ status' = "killed"
    /\ UNCHANGED << entry, pc, pos, err, files, tables, enrich, gate, hist >>

\* s3.upload_file(local path, bucket, key)
upload_file ==
    /\ status = "running" /\ pc # "quality_checks" /\ Step = "upload"
    /\ uploads' = Bump(uploads, ArtifactOf(pc))
    /\ \/ /\ ~local[ArtifactOf(pc)].exists
          /\ Raise("FileNotFoundError")
          /\ remote' = remote
       \/ /\ local[ArtifactOf(pc)].exists
          /\ \/ Raise("S3UploadFailedError") /\ remote' = remote
             \/ /\ remote' = [ remote EXCEPT ![ArtifactOf(pc)] = local[ArtifactOf(pc)] ]
                /\ Continue
    /\ UNCHANGED << entry, local, lists, clock, tables, enrich, gate, opens, writes >>

\* ------------------------------------------------------------------------
\* quality_checks: the block of one artifact. os.path.isfile, then os.stat,
\* which raises FileNotFoundError for a missing file, then list_objects_v2
quality_checks ==
    /\ Running("quality_checks", "check")
    /\ LET a == ARTIFACTS[gi]
           isfile == << a, "exists", local[a].exists >>
       IN  IF ~local[a].exists
           THEN /\ printed' = printed \cup { isfile }
                /\ gi' = gi
                /\ Raise("FileNotFoundError")
           ELSE /\ printed' = printed \cup
                       { isfile,
                         << a, "non_empty", st_size(local[a]) # 0 >>,
                         << a, "uploaded", remote[a].exists >> }
                /\ gi' = gi + 1
                /\ Skip(IF gi = Len(ARTIFACTS) THEN 1 ELSE 0)
    /\ UNCHANGED << entry, files, tables, enrich, hist >>

\* ------------------------------------------------------------------------
Next ==
    \/ process_units_data
    \/ process_item_group_data
    \/ process_flags_data
    \/ process_elements_data
    \/ process_country_group_data
    \/ world_file_codes
    \/ world_file_transform
    \/ countries_list
    \/ countries_get
    \/ countries_normalize
    \/ to_csv_open
    \/ to_csv_write
    \/ kill
    \/ upload_file
    \/ quality_checks

Spec == Init /\ [][Next]_vars

\* ------------------------------------------------------------------------
\* Properties

\* the stage of main() that owns an artifact: the n-th artifact belongs to the
\* n-th call
Owner(a) == MAIN[IndexOf(ARTIFACTS, a)]

\* the raw sources are those of the first six stages
RawSourceStages == DimStages \cup { "process_world_file_data" }

\* C1: quality_checks never raises: for every artifact, also one whose local
\* file does not exist, it prints exists, and still prints the non-empty check
\* and the remote-listing check for it and goes on to the artifacts after it.
C1_GateReportsEveryArtifact ==
    pc = "quality_checks" =>
        /\ status # "aborted"
        /\ \A i \in 1..(gi - 1) :
              /\ \E b \in BOOLEAN : << ARTIFACTS[i], "exists", b >> \in printed
              /\ \E b \in BOOLEAN : << ARTIFACTS[i], "non_empty", b >> \in printed
              /\ \E b \in BOOLEAN : << ARTIFACTS[i], "uploaded", b >> \in printed
        /\ status = "done" => gi = Len(ARTIFACTS) + 1

\* a response counts as a success when its status is 2xx and below 201
IsSuccess(status_code) == status_code \in 200..299 /\ status_code < 201

\* the codes of the first k calls that were answered with a success, in order
RECURSIVE ResolvedUpTo(_)
ResolvedUpTo(k) ==
    IF k = 0 THEN << >>
    ELSE IF IsSuccess(statuses[k]) THEN Append(ResolvedUpTo(k - 1), calls[k])
         ELSE ResolvedUpTo(k - 1)

LoopOver ==
    \/ pc = "process_countries_data" /\ Step \notin { "list", "get" }
    \/ entry = "main" /\ pc = "quality_checks"

\* C2: in the lookup loop a code answered with a non-success status adds no
\* record, every code after it is still looked up, and the output holds
\* exactly one record per successfully resolved code, in call order.
C2_OneRecordPerResolvedCode ==
    /\ [ i \in DOMAIN result_file_countries |-> result_file_countries[i].code ]
          = ResolvedUpTo(Len(statuses))
    /\ \A i \in DOMAIN calls : calls[i] = list_of_countries[i]
    /\ LoopOver => Len(statuses) = Len(list_of_countries)
    /\ (status = "aborted" /\ pc = "process_countries_data" /\ Step = "get")
          => err = "Timeout"

\* C2 witness: the loop is over, a code was answered with a non-success
\* status and a later code was resolved.
C2_Witness ==
    /\ LoopOver
    /\ \E i, j \in DOMAIN statuses :
          i < j /\ ~IsSuccess(statuses[i]) /\ IsSuccess(statuses[j])

\* C3: a lookup that times out is skipped like an unavailable entity: the
\* remaining codes are looked up and the stage and the run go on.
C3_TimeoutIsSkipped == err = "Timeout" => status # "aborted"

\* C4: a schema mismatch, a local write error or a remote upload error in one
\* stage aborts only that branch: a run that has ended has attempted every
\* stage and has run the quality checks.
C4_FailureAbortsOnlyItsBranch ==
    (entry = "main" /\ status = "aborted"
        /\ err \in { "KeyError", "OSError", "S3UploadFailedError" })
    => \A i \in DOMAIN MAIN : i <= IndexOf(MAIN, pc)

\* C5: the upload of an artifact is started only after its local write has
\* completed in this run: an artifact whose write failed or has not happened
\* yet is never uploaded.
C5_UploadAfterLocalWrite ==
    \A a \in Artifacts :
        uploads[a] > 0 =>
            /\ writes[a] > 0
            /\ local[a].gen = "new"
            /\ local[a].complete

\* C5 witness: an artifact was written and uploaded, while the local file of
\* another artifact is still one of an earlier run.
C5_Witness ==
    /\ uploads["dim_unit.csv"] = 1
    /\ remote["dim_unit.csv"] = local["dim_unit.csv"]
    /\ local["dim_unit.csv"].gen = "new"
    /\ local["dim_flag.csv"].gen = "old"
    /\ uploads["dim_flag.csv"] = 0

\* C6: the local write is all-or-nothing: when the process dies during the
\* write, no partially written file of this run is under the final name.
C6_WriteAllOrNothing ==
    status = "killed" =>
        \A a \in Artifacts : local[a].gen = "new" => local[a].complete

\* C7: at most one lookup is issued per distinct entity code.
C7_OneLookupPerCode ==
    \A i, j \in DOMAIN calls : i # j => calls[i] # calls[j]

\* C8: in every run, also with code-list files of earlier runs in data/,
\* every code looked up is the code of a row of the fact source read in this
\* run.
C8_CodesComeFromFactSource ==
    entry = "main" =>
        \A i \in DOMAIN calls :
            \E k \in DOMAIN world_data.rows :
                lstrip(world_data.rows[k].code) = calls[i]

\* C8 witness: a lookup was made in a run that found a code-list file of an
\* earlier run in data/.
C8_Witness ==
    /\ entry = "main"
    /\ calls # << >>
    /\ \E f \in lists : f.ctime < clock - 1

\* what the claim expects of the written table's columns
ExpectedCols(cols, stage) ==
    { IF c \in DOMAIN Mapping(stage) THEN Mapping(stage)[c] ELSE c :
        c \in Range(cols) \ Dropped(stage) }

\* C9: for every raw source, the written table's column set is the source
\* columns minus the dropped ones, renamed by the mapping, with no extra
\* column, and its rows are the source rows, same order, same number.
C9_WrittenTableIsMappedSource ==
    (pc \in RawSourceStages /\ Step = "upload" /\ writes[ArtifactOf(pc)] = 1) =>
        LET f == local[ArtifactOf(pc)]
            source == IF pc \in DimStages THEN src ELSE world_data
        IN  /\ Range(f.cols) = ExpectedCols(source.cols, pc)
            /\ Len(f.cols) = Cardinality(ExpectedCols(source.cols, pc))
            /\ Len(f.rows) = Len(source.rows)
            /\ \A i \in DOMAIN f.rows :
                  f.rows[i].code = lstrip(source.rows[i].code)

\* C10: each artifact is written once, by its own stage, and not changed
\* afterwards: no stage touches another stage's local file or remote key, and
\* quality_checks leaves every local file and every remote object as it is.
C10_WrittenOnceByOwnStage ==
    [][ \A a \in Artifacts :
          /\ (local'[a] # local[a] \/ remote'[a] # remote[a]) => pc = Owner(a)
          /\ pc = "quality_checks" => local'[a] = local[a] /\ remote'[a] = remote[a]
          /\ writes[a] > 0 => local'[a] = local[a]
          /\ remote[a].gen = "new" => remote'[a] = remote[a]
          /\ opens'[a] <= 1 /\ writes'[a] <= 1 /\ uploads'[a] <= 1
      ]_vars

\* C10 witness: a run of main has written and uploaded all seven artifacts
\* and quality_checks has gone through all of them.
C10_Witness ==
    /\ entry = "main"
    /\ status = "done"
    /\ \A a \in Artifacts : writes[a] = 1 /\ remote[a] = local[a]
    /\ Cardinality(printed) = 3 * Len(ARTIFACTS)

\* the optional fields a response lacks: absent or empty
Lacking(item) ==
    { f \in { "languages", "capital", "nativeName" } :
        item[f] \in { "absent", "empty" } }

\* C11: when a successful response lacks an optional field (languages,
\* capital or the native-name structure), normalization does not fail: the
\* field is empty in the resulting record, and the remaining responses are
\* normalized as well.
C11_MissingOptionalFieldIsTolerated ==
    /\ (pc = "process_countries_data" /\ Step = "normalize")
          => status # "aborted"
    /\ (pc = "process_countries_data" /\ Step \in Range(WriterSteps))
          => /\ Len(df.rows) = Len(result_file_countries)
             /\ \A i \in DOMAIN df.rows :
                   \A f \in Lacking(result_file_countries[i]) :
                       df.rows[i][f] = "empty"

====
